---- MODULE Spec2Model ----
(***************************************************************************)
(* The scraping scripts of the repository as one state machine.            *)
(*                                                                         *)
(*   reviews  = code/autonation_consumer_reviews_live.py                   *)
(*   minimal  = code/autonation_live_scrape_minimal.py                     *)
(*   live     = code/autonation_live_scrape.py                             *)
(*                                                                         *)
(* Each script is a straight-line module: render the page in a browser,    *)
(* hand the HTML to the extraction service, persist, preview, report cost. *)
(* pc is the position in the script.  A call into the browser, the file    *)
(* system or the extraction service either returns or raises; an exception *)
(* that nobody catches unwinds the `with sync_playwright()` block when it   *)
(* is raised inside it and then ends the run (pc = "aborted").             *)
(***************************************************************************)
EXTENDS Integers, Sequences, FiniteSets, TLC

VARIABLES
    script,        \* which script runs
    pc,            \* position in the script
    failedAt,      \* the call whose exception ended the run, or "none"
    playwright,    \* the sync_playwright() context: "none" | "running" | "stopped"
    browser,       \* the Chromium process: "none" | "open" | "closed"
    clicks,        \* successful "Load more" lookups so far (saturates at MaxClicks)
    lastLookup,    \* result of the last query_selector: "unset" | "found" | "none"
    htmlFile,      \* the rendered-HTML file: "absent" or its content
    html,          \* html in the function, html_content / rendered_html after it
    gotoCalls,     \* how many times page.goto() was called
    runCalls,      \* how many times scraper.run() was called
    result,        \* what scraper.run() returned, or Unset
    jsonFile,      \* the JSON output file: <<>> (absent) or its text as tokens
    preview,       \* what the preview section printed: "unset" | "records" | "diagnostic"
    exec_info,     \* scraper.execution_info as read by the script
    total_cost,    \* total_cost, in cost units
    n_records,     \* n_reviews / cars_in_run, or -1 before it is computed
    report,        \* what the projection block printed
    convIn,        \* the value handed to the cost-value conversion
    convOut        \* what the conversion returned, or Unconverted

renderVars == <<playwright, browser, clicks, lastLookup, htmlFile>>
pipeVars   == <<html, gotoCalls, runCalls, result, jsonFile, preview, exec_info,
                total_cost, n_records, report>>
convVars   == <<convIn, convOut>>
vars == <<script, pc, failedAt, renderVars, pipeVars, convVars>>

(***************************************************************************)
(* Bounds of the model.                                                    *)
(***************************************************************************)
MaxClicks  == 4      \* clicks is counted exactly up to here, then saturates
MaxRecords == 3      \* longest record list the extraction service returns
MaxNodes   == 2      \* most entries of scraper.execution_info
MaxStrLen  == 3      \* longest cost string handed to the conversion

Scripts == {"reviews", "minimal", "live"}
Pages   == {"page"}                  \* what page.content() returns

SeqsUpTo(S, n) == UNION {[1..k -> S] : k \in 0..n}

Min(a, b) == IF a < b THEN a ELSE b

(***************************************************************************)
(* Leaving the `with sync_playwright() as p:` block, normally or by an     *)
(* exception: __exit__ stops the Playwright driver, and the driver takes   *)
(* the browser it launched down with it if browser.close() has not run.    *)
(***************************************************************************)
\* Variant: the session is started without the with block, so nothing stops
\* it when the function is left.
ExitPlaywrightLeak ==
    /\ playwright' = playwright
    /\ browser' = browser

ExitPlaywright ==
    /\ playwright' = "stopped"
    /\ browser' = IF browser = "open" THEN "closed" ELSE browser

\* An exception raised by call `op` inside the with block: nothing in the
\* function catches it (live re-raises the one it catches), so the block is
\* left and the module-level script dies with the traceback.
RaiseInWith(op) ==
    /\ pc' = "aborted"
    /\ failedAt' = op
    /\ ExitPlaywright
    /\ UNCHANGED <<script, clicks, lastLookup, htmlFile, pipeVars, convVars>>

\* A call that returns: only the position changes.
Step(to) ==
    /\ pc' = to
    /\ UNCHANGED <<script, failedAt, renderVars, pipeVars, convVars>>

(***************************************************************************)
(* The Page Materializer: render_full_page / fetch_rendered_html.          *)
(***************************************************************************)
\* with sync_playwright() as p: browser = p.chromium.launch(headless=False)
Launch ==
    /\ pc = "start"
    /\ \/ /\ pc' = "new_page"
          /\ playwright' = "running"
          /\ browser' = "open"
          /\ UNCHANGED <<script, failedAt, clicks, lastLookup, htmlFile,
                         pipeVars, convVars>>
       \/ /\ pc' = "aborted"          \* launch raised: no browser was started
          /\ failedAt' = "launch"
          /\ playwright' = "stopped"
          /\ UNCHANGED <<script, browser, clicks, lastLookup, htmlFile,
                         pipeVars, convVars>>

\* page = browser.new_page(...)   (live: new_context(...) and new_page())
NewPage ==
    /\ pc = "new_page"
    /\ \/ Step("goto")
       \/ RaiseInWith("new_page")

\* page.goto(url, timeout=60_000): raises on a navigation timeout.
AfterGoto ==
    CASE script = "reviews" -> "query"
      [] script = "minimal" -> "scroll"
      [] script = "live"    -> "wait_selector"

gotoRest == <<html, runCalls, result, jsonFile, preview, exec_info,
              total_cost, n_records, report>>

\* Variant: a first navigation timeout is caught and the navigation retried.
GotoRetry ==
    /\ pc = "goto"
    /\ gotoCalls' = gotoCalls + 1
    /\ \/ /\ pc' = AfterGoto
          /\ UNCHANGED <<script, failedAt, renderVars, gotoRest, convVars>>
       \/ /\ gotoCalls = 0          \* first timeout: try once more
          /\ pc' = "goto"
          /\ UNCHANGED <<script, failedAt, renderVars, gotoRest, convVars>>
       \/ /\ gotoCalls > 0
          /\ pc' = "aborted"
          /\ failedAt' = "goto"
          /\ ExitPlaywright
          /\ UNCHANGED <<script, clicks, lastLookup, htmlFile, gotoRest,
                         convVars>>

Goto ==
    /\ pc = "goto"
    /\ gotoCalls' = gotoCalls + 1
    /\ \/ /\ pc' = AfterGoto
          /\ UNCHANGED <<script, failedAt, renderVars, gotoRest, convVars>>
       \/ /\ pc' = "aborted"
          /\ failedAt' = "goto"
          /\ ExitPlaywright
          /\ UNCHANGED <<script, clicks, lastLookup, htmlFile, gotoRest,
                         convVars>>

\* live: try: page.wait_for_selector(...) except Exception as e: raise e
WaitForSelector ==
    /\ pc = "wait_selector"
    /\ script = "live"
    /\ \/ Step("scroll")
       \/ RaiseInWith("wait_selector")

\* minimal, live: page.evaluate("window.scrollTo(...)") between the sleeps.
ScrollToBottom ==
    /\ pc = "scroll"
    /\ script \in {"minimal", "live"}
    /\ \/ Step("capture")
       \/ RaiseInWith("scroll")

\* Variant: the loop also ends after MaxClicks clicks.
QuerySelectorBounded ==
    /\ pc = "query"
    /\ script = "reviews"
    /\ \/ \E found \in BOOLEAN :
            /\ lastLookup' = IF found THEN "found" ELSE "none"
            /\ clicks' = IF found THEN Min(clicks + 1, MaxClicks) ELSE clicks
            /\ pc' = IF found /\ clicks < MaxClicks THEN "click" ELSE "final_end"
            /\ UNCHANGED <<script, failedAt, playwright, browser, htmlFile,
                           pipeVars, convVars>>
       \/ RaiseInWith("query")

\* Variant: an empty lookup waits and looks again instead of breaking.
QuerySelectorRetry ==
    /\ pc = "query"
    /\ script = "reviews"
    /\ \/ \E found \in BOOLEAN :
            /\ lastLookup' = IF found THEN "found" ELSE "none"
            /\ clicks' = IF found THEN Min(clicks + 1, MaxClicks) ELSE clicks
            /\ pc' = IF found THEN "click" ELSE "wait"
            /\ UNCHANGED <<script, failedAt, playwright, browser, htmlFile,
                           pipeVars, convVars>>
       \/ RaiseInWith("query")

\* reviews, top of `while True`: load_more = page.query_selector(...);
\* if not load_more: break
QuerySelector ==
    /\ pc = "query"
    /\ script = "reviews"
    /\ \/ \E found \in BOOLEAN :
            /\ lastLookup' = IF found THEN "found" ELSE "none"
            /\ clicks' = IF found THEN Min(clicks + 1, MaxClicks) ELSE clicks
            /\ pc' = IF found THEN "click" ELSE "final_end"
            /\ UNCHANGED <<script, failedAt, playwright, browser, htmlFile,
                           pipeVars, convVars>>
       \/ RaiseInWith("query")

\* load_more.click()
Click ==
    /\ pc = "click"
    /\ \/ Step("wait")
       \/ RaiseInWith("click")

\* page.wait_for_timeout(1500)
WaitForTimeout ==
    /\ pc = "wait"
    /\ \/ Step("press_end")
       \/ RaiseInWith("wait")

\* page.keyboard.press("End"), last statement of the loop body
PressEnd ==
    /\ pc = "press_end"
    /\ \/ Step("query")
       \/ RaiseInWith("press_end")

\* after the loop: page.keyboard.press("End"); time.sleep(1)
FinalPressEnd ==
    /\ pc = "final_end"
    /\ \/ Step("capture")
       \/ RaiseInWith("final_end")

\* html = page.content()
Content ==
    /\ pc = "capture"
    /\ \/ \E h \in Pages :
            /\ html' = h
            /\ pc' = IF script = "live" THEN "close" ELSE "write_html"
            /\ UNCHANGED <<script, failedAt, renderVars, gotoCalls,
                           runCalls, result, jsonFile, preview, exec_info, total_cost, n_records, report,
                           convVars>>
       \/ RaiseInWith("capture")

\* os.makedirs(...); with open(OUT_HTML, "w") as f: f.write(html)
WriteHtml ==
    /\ pc = "write_html"
    /\ script \in {"reviews", "minimal"}
    /\ \/ /\ htmlFile' = html
          /\ pc' = "close"
          /\ UNCHANGED <<script, failedAt, playwright, browser, clicks,
                         lastLookup, pipeVars, convVars>>
       \/ RaiseInWith("write_html")

\* browser.close()
CloseBrowser ==
    /\ pc = "close"
    /\ \/ /\ browser' = "closed"
          /\ pc' = "return"
          /\ UNCHANGED <<script, failedAt, playwright, clicks, lastLookup,
                         htmlFile, pipeVars, convVars>>
       \/ RaiseInWith("close")

\* return html: leaves the with block and the function; the function's
\* locals (load_more, and with it the count of its loop) are gone
ReturnHtml ==
    /\ pc = "return"
    /\ pc' = "extract"
    /\ ExitPlaywright
    /\ clicks' = 0
    /\ lastLookup' = "unset"
    /\ UNCHANGED <<script, failedAt, htmlFile, pipeVars, convVars>>

InRender == {"new_page", "goto", "wait_selector", "scroll", "query", "click",
             "wait", "press_end", "final_end", "capture", "write_html",
             "close", "return"}
InLoop   == {"query", "click", "wait", "press_end"}
PastLoop == {"final_end", "capture", "write_html", "close", "return"}

RenderNext ==
    \/ Launch \/ NewPage \/ Goto \/ WaitForSelector \/ ScrollToBottom
    \/ QuerySelector \/ Click \/ WaitForTimeout \/ PressEnd \/ FinalPressEnd
    \/ Content \/ WriteHtml \/ CloseBrowser \/ ReturnHtml

(***************************************************************************)
(* Values.  A value of the extraction result is a record                   *)
(*   t     : "list" | "dict" | "str" | "int" | "none" | "unset"            *)
(*   items : the elements of a list, the characters of a string, or, for   *)
(*           a dict, those of the value under its "content" key            *)
(*   ct    : for a dict, the type of the value under "content", or         *)
(*           "absent" when the dict has no such key; "na" otherwise        *)
(***************************************************************************)
Records == {"r1", "r2"}

ListResult(l)     == [t |-> "list", ct |-> "na", items |-> l]
StrResult(l)      == [t |-> "str",  ct |-> "na", items |-> l]
IntResult         == [t |-> "int",  ct |-> "na", items |-> <<>>]
NoneResult        == [t |-> "none", ct |-> "na", items |-> <<>>]
DictResult(ct, l) == [t |-> "dict", ct |-> ct,   items |-> l]
Unset             == [t |-> "unset", ct |-> "na", items |-> <<>>]

RecordLists == SeqsUpTo(Records, MaxRecords)

\* The two shapes the scripts expect from scraper.run() ...
ExpectedResults ==
    {ListResult(l) : l \in RecordLists} \cup
    {DictResult("list", l) : l \in RecordLists}

\* ... and the others the service can hand back.
UnexpectedResults ==
    { StrResult(<<"o", "k">>), NoneResult,
      DictResult("absent", <<>>), DictResult("int", <<>>),
      DictResult("none", <<>>), DictResult("str", <<"o", "k">>) }

Results == ExpectedResults \cup UnexpectedResults

\* d["content"] of a dict that has the key
ContentOf(d) ==
    CASE d.ct = "list" -> ListResult(d.items)
      [] d.ct = "str"  -> StrResult(d.items)
      [] d.ct = "int"  -> IntResult
      [] OTHER         -> NoneResult

\* d.get("content", [])
GetContent(d) == IF d.ct = "absent" THEN ListResult(<<>>) ELSE ContentOf(d)

\* whether len(v) and v[:2] work on the value
Sized(v) == v.t \in {"list", "str"}

\* json.dump(v, f, indent=4) as the tokens written to the file
DumpFlat(v) ==
    CASE v.t = "list" -> <<"[">> \o v.items \o <<"]">>
      [] v.t = "str"  -> <<"\"">> \o v.items \o <<"\"">>
      [] v.t = "int"  -> <<"7">>
      [] OTHER        -> <<"null">>

JsonDump(v) ==
    IF v.t = "dict"
    THEN IF v.ct = "absent"
         THEN <<"{", "}">>
         ELSE <<"{", "content", ":">> \o DumpFlat(ContentOf(v)) \o <<"}">>
    ELSE DumpFlat(v)

(***************************************************************************)
(* Cost values: the value of a field of an execution-info node.            *)
(*   t : "int" | "str" | "none" | "list";  n : the number;  s : the chars  *)
(* Costs are whole numbers of a cost unit.                                 *)
(***************************************************************************)
IntVal(n) == [t |-> "int",  n |-> n, s |-> <<>>]
StrVal(s) == [t |-> "str",  n |-> 0, s |-> s]
NoneVal   == [t |-> "none", n |-> 0, s |-> <<>>]
ListVal   == [t |-> "list", n |-> 0, s |-> <<>>]

DigitChars == <<"0", "1", "2", "3", "4", "5", "6", "7", "8", "9">>
IsDigit(c) == \E i \in 1..Len(DigitChars) : DigitChars[i] = c
DigitVal(c) == (CHOOSE i \in 1..Len(DigitChars) : DigitChars[i] = c) - 1

RECURSIVE DecVal(_)
DecVal(s) ==
    IF s = <<>> THEN 0
    ELSE 10 * DecVal(SubSeq(s, 1, Len(s) - 1)) + DigitVal(s[Len(s)])

RECURSIVE DecStr(_)
DecStr(n) ==
    IF n < 10 THEN <<DigitChars[n + 1]>>
    ELSE DecStr(n \div 10) \o <<DigitChars[(n % 10) + 1]>>

\* str(v)
PyStr(v) ==
    CASE v.t = "int"  -> IF v.n < 0 THEN <<"-">> \o DecStr(0 - v.n) ELSE DecStr(v.n)
      [] v.t = "str"  -> v.s
      [] v.t = "none" -> <<"N", "o", "n", "e">>
      [] OTHER        -> <<"[", "]">>

\* s.replace("$", "")
RemoveDollars(s) == SelectSeq(s, LAMBDA c : c # "$")

\* s.strip()
RECURSIVE LStrip(_)
LStrip(s) == IF s # <<>> /\ Head(s) = " " THEN LStrip(Tail(s)) ELSE s
RECURSIVE RStrip(_)
RStrip(s) ==
    IF s # <<>> /\ s[Len(s)] = " " THEN RStrip(SubSeq(s, 1, Len(s) - 1)) ELSE s
Strip(s) == LStrip(RStrip(s))

AllDigits(s) == s # <<>> /\ \A i \in 1..Len(s) : IsDigit(s[i])

\* float(s) on a string: surrounding blanks, an optional sign, digits.
\* ok = FALSE is ValueError.
ParseFloat(s) ==
    LET core == Strip(s)
        signed == core # <<>> /\ Head(core) \in {"-", "+"}
        digits == IF signed THEN Tail(core) ELSE core
    IN  IF AllDigits(digits)
        THEN [ok |-> TRUE,
              v  |-> IF signed /\ Head(core) = "-" THEN 0 - DecVal(digits)
                     ELSE DecVal(digits)]
        ELSE [ok |-> FALSE, v |-> 0]

\* reviews: _to_float(x)
ToFloat(x) ==
    IF x.t = "int" THEN x.n
    ELSE IF x.t = "str"
         THEN LET r == ParseFloat(Strip(RemoveDollars(x.s)))
              IN  IF r.ok THEN r.v ELSE 0
         ELSE 0

\* minimal: the try block of extract_node_cost,
\* float(str(v).replace("$", "").strip()) except ValueError: 0.0
NodeCostValue(v) ==
    LET r == ParseFloat(Strip(RemoveDollars(PyStr(v))))
    IN  IF r.ok THEN r.v ELSE 0

(***************************************************************************)
(* Execution info: a list of nodes, a node an ordered mapping (a dict      *)
(* keeps insertion order) from field names to cost values.                 *)
(***************************************************************************)
KeyCost      == <<"C", "o", "s", "t", " ", "(", "$", ")">>
KeyTotalCost == <<"t", "o", "t", "a", "l", "_", "c", "o", "s", "t", "_", "U", "S", "D">>
KeyTokens    == <<"t", "o", "t", "a", "l", "_", "t", "o", "k", "e", "n", "s">>

Fields ==
    { [k |-> KeyTokens,    v |-> IntVal(3)],
      [k |-> KeyTotalCost, v |-> IntVal(2)],
      [k |-> KeyCost,      v |-> StrVal(<<"$", "1">>)] }

Nodes ==
    { nd \in SeqsUpTo(Fields, Cardinality(Fields)) :
        \A i, j \in 1..Len(nd) : i # j => nd[i].k # nd[j].k }

ExecInfos == SeqsUpTo(Nodes, MaxNodes)

\* k.lower()
LowerChar(c) ==
    CASE c = "C" -> "c" [] c = "U" -> "u" [] c = "S" -> "s" [] c = "D" -> "d"
      [] OTHER -> c
Lower(k) == [i \in 1..Len(k) |-> LowerChar(k[i])]

\* sub in s
Contains(s, sub) ==
    \E i \in 1..(Len(s) - Len(sub) + 1) : SubSeq(s, i, i + Len(sub) - 1) = sub

\* "cost" in k.lower()
IsCostKey(k) == Contains(Lower(k), <<"c", "o", "s", "t">>)

RECURSIVE SumSeq(_)
SumSeq(s) == IF s = <<>> THEN 0 ELSE Head(s) + SumSeq(Tail(s))

\* reviews: the generator of total_cost, one node's share
NodeCostSum(node) ==
    SumSeq([i \in 1..Len(node) |->
              IF IsCostKey(node[i].k) THEN ToFloat(node[i].v) ELSE 0])

\* reviews: total_cost = sum(_to_float(v) for node_info in exec_info
\*                           for k, v in node_info.items() if "cost" in k.lower())
TotalCostReviews(ei) == SumSeq([i \in 1..Len(ei) |-> NodeCostSum(ei[i])])

\* minimal: extract_node_cost(node) returns at the first cost-named field
extract_node_cost(node) ==
    IF \E i \in 1..Len(node) : IsCostKey(node[i].k)
    THEN LET first == CHOOSE i \in 1..Len(node) :
                        /\ IsCostKey(node[i].k)
                        /\ \A j \in 1..(i - 1) : ~IsCostKey(node[j].k)
         IN  NodeCostValue(node[first].v)
    ELSE 0

\* minimal: total_cost = sum(extract_node_cost(node) for node in exec_info_list)
TotalCostMinimal(ei) == SumSeq([i \in 1..Len(ei) |-> extract_node_cost(ei[i])])

(***************************************************************************)
(* The module-level pipeline after the page is rendered.                   *)
(***************************************************************************)
\* An exception at module level: the script dies there.
Raise(op) ==
    /\ pc' = "aborted"
    /\ failedAt' = op

\* scraper = SmartScraperGraph(...); result = scraper.run()
\* The service either returns a value or raises; nothing catches it.
Extract ==
    /\ pc = "extract"
    /\ runCalls' = runCalls + 1
    /\ \/ \E r \in Results :
            /\ result' = r
            /\ pc' = IF script = "live" THEN "print" ELSE "persist"
            /\ UNCHANGED failedAt
       \/ /\ Raise("extract")
          /\ UNCHANGED result
    /\ UNCHANGED <<script, renderVars, html, gotoCalls, jsonFile, preview,
                   exec_info, total_cost, n_records, report, convVars>>

\* reviews: with open(OUT_JSON, "w") as f: json.dump(reviews_data, f, indent=4)
\* minimal: print(json.dumps(result, indent=4)); json.dump(result, f, indent=4)
Persist ==
    /\ pc = "persist"
    /\ script \in {"reviews", "minimal"}
    /\ jsonFile' = JsonDump(result)
    /\ pc' = IF script = "reviews" THEN "preview" ELSE "cost"
    /\ UNCHANGED <<script, failedAt, renderVars, html, gotoCalls, runCalls,
                   result, preview, exec_info, total_cost, n_records, report,
                   convVars>>

\* live: print(json.dumps(result, indent=4)); print(prettify_exec_info(...))
PrintResult ==
    /\ pc = "print"
    /\ script = "live"
    /\ Step("done")

\* v[:2]
FirstTwo(l) == SubSeq(l, 1, Min(Len(l), 2))

NoPreview == [kind |-> "unset", shown |-> <<>>]

\* reviews: the preview of the first two extracted reviews
Preview ==
    /\ pc = "preview"
    /\ script = "reviews"
    /\ IF result.t = "list"
       THEN /\ preview' = [kind |-> "records", shown |-> FirstTwo(result.items)]
            /\ pc' = "cost"
            /\ UNCHANGED failedAt
       ELSE IF result.t = "dict" /\ result.ct # "absent"
       THEN \* reviews_data.get("content", [])[:2]: TypeError unless sliceable
            IF Sized(ContentOf(result))
            THEN /\ preview' = [kind |-> "records",
                                shown |-> FirstTwo(result.items)]
                 /\ pc' = "cost"
                 /\ UNCHANGED failedAt
            ELSE /\ Raise("preview")
                 /\ UNCHANGED preview
       ELSE /\ preview' = [kind |-> "diagnostic", shown |-> <<>>]
            /\ pc' = "cost"
            /\ UNCHANGED failedAt
    /\ UNCHANGED <<script, renderVars, html, gotoCalls, runCalls, result,
                   jsonFile, exec_info, total_cost, n_records, report,
                   convVars>>

PROJECTIONS == <<100, 1000, 100000, 1000000>>

\* A quotient a / b is kept exact, as the pair <<a, b>>.
Unreported == [kind |-> "unset", cpr |-> <<0, 1>>, lines |-> <<>>]
Unable     == [kind |-> "unable", cpr |-> <<0, 1>>, lines |-> <<>>]
\* Variant: the division the wrong way round.
ProjectionInverted(total, n) ==
    [kind  |-> "projection",
     cpr   |-> <<n, total>>,
     lines |-> [i \in 1..Len(PROJECTIONS) |->
                  <<PROJECTIONS[i], PROJECTIONS[i] * n, total>>]]

\* cost_per_review = total_cost / n_reviews and, for each quantity, the
\* value quantity * cost_per_review handed to the f-string (which renders
\* it at fixed precision).
Projection(total, n) ==
    [kind  |-> "projection",
     cpr   |-> <<total, n>>,
     lines |-> [i \in 1..Len(PROJECTIONS) |->
                  <<PROJECTIONS[i], PROJECTIONS[i] * total, n>>]]

\* Variant: the container shape is not unwrapped.
ReviewListNoDict(res) ==
    IF res.t = "list" THEN res ELSE ListResult(<<>>)

\* reviews: review_list = [] / reviews_data / reviews_data.get("content", [])
ReviewList(res) ==
    IF res.t = "list" THEN res
    ELSE IF res.t = "dict" THEN GetContent(res)
    ELSE ListResult(<<>>)

\* minimal: cars = result if isinstance(result, list) else result.get("content", [])
\* AttributeError when result has no .get
CarsRaises(res) == res.t \notin {"list", "dict"}
Cars(res) == IF res.t = "list" THEN res ELSE GetContent(res)

\* Variant: `or` in place of `and`.
ProjectReviewsOr(n, total) == n > 0 \/ total > 0

\* reviews: if n_reviews > 0 and total_cost > 0
ProjectReviews(n, total) == n > 0 /\ total > 0

\* minimal: if cars_in_run and total_cost
ProjectMinimal(n, total) == n # 0 /\ total # 0

\* The count and the projection block, given the record list.
\* len() raises TypeError on a value without a length; total / n raises
\* ZeroDivisionError when n is 0.
CountAndProject(list, total) ==
    IF ~Sized(list)
    THEN /\ Raise("count")
         /\ UNCHANGED <<n_records, report>>
    ELSE LET n == Len(list.items)
         IN  /\ n_records' = n
             /\ IF IF script = "reviews" THEN ProjectReviews(n, total)
                   ELSE ProjectMinimal(n, total)
                THEN IF n = 0
                     THEN /\ Raise("division")
                          /\ UNCHANGED report
                     ELSE /\ report' = Projection(total, n)
                          /\ pc' = "done"
                          /\ UNCHANGED failedAt
                ELSE /\ report' = Unable
                     /\ pc' = "done"
                     /\ UNCHANGED failedAt

\* reviews: exec_info = scraper.execution_info ... the projection block
CostReviews ==
    /\ pc = "cost"
    /\ script = "reviews"
    /\ \E ei \in ExecInfos :
         /\ exec_info' = ei
         /\ total_cost' = TotalCostReviews(ei)
         /\ CountAndProject(ReviewList(result), TotalCostReviews(ei))
    /\ UNCHANGED <<script, renderVars, html, gotoCalls, runCalls, result,
                   jsonFile, preview, convVars>>

\* minimal: exec_info_list = scraper.execution_info ... the projection block
CostMinimal ==
    /\ pc = "cost"
    /\ script = "minimal"
    /\ \E ei \in ExecInfos :
         /\ exec_info' = ei
         /\ total_cost' = TotalCostMinimal(ei)
         /\ IF CarsRaises(result)
            THEN /\ Raise("count")
                 /\ UNCHANGED <<n_records, report>>
            ELSE CountAndProject(Cars(result), TotalCostMinimal(ei))
    /\ UNCHANGED <<script, renderVars, html, gotoCalls, runCalls, result,
                   jsonFile, preview, convVars>>

PipelineNext ==
    \/ Extract \/ Persist \/ PrintResult \/ Preview \/ CostReviews
    \/ CostMinimal

(***************************************************************************)
(* The cost-value conversion on its own.                                   *)
(***************************************************************************)
ConvChars == {"$", " ", "1", "2", "x"}

ConvInputs ==
    {IntVal(n) : n \in {-3, 0, 7, 12}} \cup
    {StrVal(s) : s \in SeqsUpTo(ConvChars, MaxStrLen)} \cup
    {NoneVal, ListVal}

Unconverted == [state |-> "unset", by |-> "none", v |-> 0]

restOfRun == <<script, pc, failedAt, renderVars, pipeVars>>

ApplyToFloat ==
    /\ convOut.state = "unset"
    /\ convOut' = [state |-> "returned", by |-> "_to_float", v |-> ToFloat(convIn)]
    /\ UNCHANGED <<convIn, restOfRun>>

ApplyNodeCost ==
    /\ convOut.state = "unset"
    /\ convOut' = [state |-> "returned", by |-> "extract_node_cost",
                   v |-> NodeCostValue(convIn)]
    /\ UNCHANGED <<convIn, restOfRun>>

ConvNext == ApplyToFloat \/ ApplyNodeCost

(***************************************************************************)
(* Specifications.                                                         *)
(***************************************************************************)
InitRun ==
    /\ pc = "start"
    /\ failedAt = "none"
    /\ playwright = "none"
    /\ browser = "none"
    /\ clicks = 0
    /\ lastLookup = "unset"
    /\ htmlFile = "absent"
    /\ html = "unset"
    /\ gotoCalls = 0
    /\ runCalls = 0
    /\ result = Unset
    /\ jsonFile = <<>>
    /\ preview = NoPreview
    /\ exec_info = <<>>
    /\ total_cost = 0
    /\ n_records = -1
    /\ report = Unreported
    /\ convOut = Unconverted

Init ==
    /\ script \in Scripts
    /\ convIn = NoneVal
    /\ InitRun

Next == RenderNext \/ PipelineNext

\* One run of one of the scripts.
Spec == Init /\ [][Next]_vars

\* The Page Materializer alone; the interpreter keeps executing statements.
FairRender == Init /\ [][RenderNext]_vars /\ WF_vars(RenderNext)

\* The conversion applied to one value.
ConvInit ==
    /\ script = "reviews"
    /\ convIn \in ConvInputs
    /\ InitRun

ConvSpec == ConvInit /\ [][ConvNext]_vars

(***************************************************************************)
(* Properties.                                                             *)
(***************************************************************************)
CostScripts == {"reviews", "minimal"}

\* C1: once the run is outside the function that opened the browser session
\* (it returned, or an exception left it: navigation, the selector wait, a
\* lookup, click, wait or key press of the loop, the capture, the HTML write),
\* the browser is not open and the Playwright session is not running.
BrowserReleasedOnExit ==
    pc \notin (InRender \cup {"start"}) =>
        /\ browser # "open"
        /\ playwright # "running"

\* a click of the polling loop raised after one successful lookup
ReleasedAfterLoopError ==
    /\ pc = "aborted"
    /\ failedAt = "click"
    /\ clicks = 1
    /\ browser = "closed"
    /\ playwright = "stopped"

\* C2: the lookup that returns no match goes straight to the final End key
\* press without another iteration being counted, and from then on the run
\* is never again at a lookup, click, wait or key press of the loop.
NoMatchEndsLoop ==
    [][ /\ (pc = "query" /\ lastLookup' = "none") =>
               (pc' = "final_end" /\ clicks' = clicks)
        /\ lastLookup = "none" =>
               (pc' \notin InLoop /\ (pc' \in PastLoop => clicks' = clicks))
      ]_vars

\* the no-match came after two successful lookups
NoMatchAfterTwoClicks ==
    /\ pc = "final_end"
    /\ lastLookup = "none"
    /\ clicks = 2

\* C3 as claimed: every run of render_full_page gets out of the polling loop
\* (to the document capture, or at least out of it by an error).
PollingLoopEnds ==
    <>(script # "reviews" \/ pc \in (PastLoop \cup {"aborted", "extract"}))

\* C3 as amended: the loop has no bound of its own; the run is past it, at
\* the final key press and the document capture, only after a lookup that
\* returned no match.
LoopLeftOnlyOnNoMatch ==
    (script = "reviews" /\ pc \in PastLoop) => lastLookup = "none"

\* the capture is reached after at least MaxClicks iterations
CaptureAfterManyClicks ==
    /\ script = "reviews"
    /\ pc = "capture"
    /\ clicks = MaxClicks
    /\ lastLookup = "none"

\* C4: with a record count of 0 or a total cost of 0 the projection block
\* prints "unable to project", no cost per record and no projection line,
\* and the division is not executed (so it cannot fail).
NoProjectionOnZero ==
    (script \in CostScripts /\ n_records >= 0
        /\ (n_records = 0 \/ total_cost = 0)) =>
        /\ pc = "done"
        /\ failedAt = "none"
        /\ report = Unable

\* no records but a positive cost: the division would be by zero
ZeroRecordsPositiveCost ==
    /\ pc = "done"
    /\ n_records = 0
    /\ total_cost > 0
    /\ report = Unable

\* C5 as claimed: total_cost is the sum over all nodes and all their
\* cost-named fields of the converted value.
AllCostFieldsSum(ei) ==
    SumSeq([i \in 1..Len(ei) |->
              SumSeq([j \in 1..Len(ei[i]) |->
                        IF IsCostKey(ei[i][j].k) THEN ToFloat(ei[i][j].v)
                        ELSE 0])])

TotalIsSumOfAllCostFields ==
    script \in CostScripts => total_cost = AllCostFieldsSum(exec_info)

\* C6 as claimed: numbers come back unchanged; of a string, the surrounding
\* blanks and one leading "$" are dropped and the rest is parsed, 0 when it is
\* no number; anything else gives 0; the conversion never raises.
SpecifiedValue(x) ==
    IF x.t = "int" THEN x.n
    ELSE IF x.t = "str"
         THEN LET core == Strip(x.s)
                  body == IF core # <<>> /\ Head(core) = "$"
                          THEN Tail(core) ELSE core
                  r    == ParseFloat(body)
              IN  IF r.ok THEN r.v ELSE 0
         ELSE 0

ConversionAsSpecified ==
    convOut.state # "unset" =>
        /\ convOut.state = "returned"
        /\ convOut.v = SpecifiedValue(convIn)

\* C7 as claimed: a result of an unexpected shape never ends the run in the
\* preview or the record count; the preview prints the diagnostic, the count
\* is 0 and the cost section reports that it cannot project.
UnexpectedShapeDegrades ==
    (script \in CostScripts /\ result \in UnexpectedResults) =>
        /\ failedAt \notin {"preview", "count"}
        /\ pc = "done" =>
              /\ n_records = 0
              /\ report = Unable
              /\ script = "reviews" => preview.kind = "diagnostic"

\* C8: a list of k records and a container holding a list of k records
\* under "content" both resolve to a record count of k.
RecordCountResolved ==
    (script \in CostScripts /\ result \in ExpectedResults
        /\ pc \in {"done", "aborted"}) =>
        /\ pc = "done"
        /\ n_records = Len(result.items)

\* a container whose "content" holds three records
ContainerOfThreeCounted ==
    /\ pc = "done"
    /\ result.t = "dict"
    /\ Len(result.items) = 3
    /\ n_records = 3

\* C9 as claimed: for both expected shapes the JSON file holds the array of
\* records itself.
PersistedFileIsRecordArray ==
    (jsonFile # <<>> /\ result \in ExpectedResults) =>
        jsonFile = <<"[">> \o result.items \o <<"]">>

\* C10: a navigation timeout or a failure of the extraction service ends
\* the run there: the failed call was made once, nothing after it has run
\* (no extraction request after a failed navigation, no HTML or JSON file,
\* no preview, no count, no cost report).
AbortOnFailure ==
    /\ failedAt = "goto" =>
          /\ pc = "aborted"
          /\ gotoCalls = 1
          /\ runCalls = 0
          /\ htmlFile = "absent"
          /\ result = Unset
          /\ jsonFile = <<>>
          /\ preview = NoPreview
          /\ n_records = -1
          /\ report = Unreported
    /\ failedAt = "extract" =>
          /\ pc = "aborted"
          /\ gotoCalls = 1
          /\ runCalls = 1
          /\ result = Unset
          /\ jsonFile = <<>>
          /\ preview = NoPreview
          /\ n_records = -1
          /\ report = Unreported

\* the extraction service failed in the script that reports costs
ExtractionFailed ==
    /\ pc = "aborted"
    /\ failedAt = "extract"
    /\ script = "minimal"
    /\ htmlFile = "page"

\* C11: with a positive record count and a positive total cost the run
\* reports cost-per-record = total cost / record count and then exactly one
\* projection for each of the volumes 100, 1,000, 100,000, 1,000,000, in
\* that order, each of value volume * cost-per-record.  (Quotients are
\* compared exactly: a / b = c / d is a * d = c * b.)
ClaimedVolumes == <<100, 1000, 100000, 1000000>>

CostPerRecordAndProjections ==
    (script \in CostScripts /\ n_records > 0 /\ total_cost > 0) =>
        /\ pc = "done"
        /\ report.kind = "projection"
        /\ report.cpr[2] # 0
        /\ report.cpr[1] * n_records = total_cost * report.cpr[2]
        /\ Len(report.lines) = Len(ClaimedVolumes)
        /\ \A i \in 1..Len(ClaimedVolumes) :
              /\ report.lines[i][1] = ClaimedVolumes[i]
              /\ report.lines[i][3] # 0
              /\ report.lines[i][2] * n_records
                    = ClaimedVolumes[i] * total_cost * report.lines[i][3]

\* total cost 4 over 2 records: 2 per record, 2000 for 1,000 records
FourOverTwoProjected ==
    /\ pc = "done"
    /\ total_cost = 4
    /\ n_records = 2
    /\ report.cpr = <<4, 2>>
    /\ report.lines[2] = <<1000, 4000, 2>>

====
